---------------------------- MODULE Spec2Model ----------------------------
(***************************************************************************)
(* Model of the neighborly-senior-helper server (server/index.js) and of   *)
(* the ingestion script (scripts/csv-to-json.mjs).                         *)
(*                                                                         *)
(* JavaScript strings are sequences of one-character strings, so that      *)
(* trim, toLowerCase, split, includes and the not-found regular expression *)
(* are computed rather than assumed.  A JSON value of a request body is a  *)
(* record [t, s, n]: its type tag, its characters when it is a string and  *)
(* its value when it is a number.                                          *)
(***************************************************************************)
EXTENDS Integers, Sequences, FiniteSets, TLC

\* ------------------------------------------------------------------ bounds
MaxRows == 3        \* CSV rows handed to the ingestion script
MaxQLen == 3        \* characters of a question given to keywordRetrieve
NumReq == 2         \* concurrent POST /api/ask requests

\* ----------------------------------------------------------------- strings
Empty == << >>

UpperToLower ==
  [c \in {"A", "B", "C", "D", "E", "F", "G", "H", "I", "J", "K", "L", "M",
          "N", "O", "P", "Q", "R", "S", "T", "U", "V", "W", "X", "Y", "Z"} |->
     CASE c = "A" -> "a" [] c = "B" -> "b" [] c = "C" -> "c" [] c = "D" -> "d"
       [] c = "E" -> "e" [] c = "F" -> "f" [] c = "G" -> "g" [] c = "H" -> "h"
       [] c = "I" -> "i" [] c = "J" -> "j" [] c = "K" -> "k" [] c = "L" -> "l"
       [] c = "M" -> "m" [] c = "N" -> "n" [] c = "O" -> "o" [] c = "P" -> "p"
       [] c = "Q" -> "q" [] c = "R" -> "r" [] c = "S" -> "s" [] c = "T" -> "t"
       [] c = "U" -> "u" [] c = "V" -> "v" [] c = "W" -> "w" [] c = "X" -> "x"
       [] c = "Y" -> "y" [] c = "Z" -> "z"]

\* String.prototype.toLowerCase
toLowerCase(s) ==
  [i \in 1..Len(s) |-> IF s[i] \in DOMAIN UpperToLower THEN UpperToLower[s[i]] ELSE s[i]]

\* the characters \s matches and trim removes (those the model's inputs use)
IsSpace(c) == c \in {" ", "\t", "\n"}

\* String.prototype.trim
trim(s) ==
  LET keep == {i \in 1..Len(s) : ~IsSpace(s[i])}
  IN  IF keep = {} THEN Empty
      ELSE LET lo == CHOOSE i \in keep : \A j \in keep : i <= j
               hi == CHOOSE i \in keep : \A j \in keep : j <= i
           IN  SubSeq(s, lo, hi)

\* String.prototype.includes
includes(hay, needle) ==
  \E i \in 0..(Len(hay) - Len(needle)) :
     \A j \in 1..Len(needle) : hay[i + j] = needle[j]

\* s.split(/\s+/).filter(Boolean): the maximal runs of non-space characters
RECURSIVE splitWords(_, _)
splitWords(s, cur) ==
  IF s = Empty THEN (IF cur = Empty THEN << >> ELSE <<cur>>)
  ELSE IF IsSpace(Head(s))
       THEN (IF cur = Empty THEN << >> ELSE <<cur>>) \o splitWords(Tail(s), Empty)
       ELSE splitWords(Tail(s), Append(cur, Head(s)))

\* parts.join(sep)
RECURSIVE join(_, _)
join(parts, sep) ==
  IF parts = << >> THEN Empty
  ELSE IF Len(parts) = 1 THEN parts[1]
  ELSE parts[1] \o sep \o join(Tail(parts), sep)

\* Array.prototype.slice(0, n)
slice0(xs, n) == SubSeq(xs, 1, IF Len(xs) < n THEN Len(xs) ELSE n)

\* ------------------------------------------------------------- JSON values
JUndefined == [t |-> "undefined", s |-> Empty, n |-> 0]
JNull == [t |-> "null", s |-> Empty, n |-> 0]
JStr(s) == [t |-> "string", s |-> s, n |-> 0]
JNum(n) == [t |-> "number", s |-> Empty, n |-> n]

\* JavaScript truthiness of a JSON value
Truthy(v) ==
  CASE v.t = "string" -> v.s # Empty
    [] v.t = "number" -> v.n # 0
    [] OTHER -> FALSE

\* (v || ''): the value itself when truthy, the empty string otherwise
OrEmpty(v) == IF Truthy(v) THEN v ELSE JStr(Empty)

\* a method of String.prototype (trim, toLowerCase) called on v throws a
\* TypeError when v is a truthy non-string
NoStringMethods(v) == v.t # "string"

\* ------------------------------------------------- ingestion (csv-to-json)
Row(town, category, name, address, phone, hours, area, url, notes) ==
  [town |-> town, category |-> category, name |-> name, address |-> address,
   phone |-> phone, hours |-> hours, area |-> area, url |-> url, notes |-> notes]

\* s.split(',')
RECURSIVE splitComma(_, _)
splitComma(s, cur) ==
  IF s = Empty THEN <<cur>>
  ELSE IF Head(s) = "," THEN <<cur>> \o splitComma(Tail(s), Empty)
       ELSE splitComma(Tail(s), Append(cur, Head(s)))

RECURSIVE dropEmpty(_)
dropEmpty(parts) ==
  IF parts = << >> THEN << >>
  ELSE (IF Head(parts) # Empty THEN <<Head(parts)>> ELSE << >>) \o dropEmpty(Tail(parts))

\* the area column: split on commas, trim each, drop the empty ones
areaList(s) ==
  LET parts == splitComma(trim(s), Empty)
  IN  dropEmpty([i \in 1..Len(parts) |-> trim(parts[i])])

\* rows.map(r => ({...})): every column trimmed
sanitize(r) ==
  [town |-> trim(r.town), category |-> trim(r.category), name |-> trim(r.name),
   address |-> trim(r.address), phone |-> trim(r.phone), hours |-> trim(r.hours),
   area |-> areaList(r.area), url |-> trim(r.url), notes |-> trim(r.notes)]

\* .filter(x => x.town && x.category && x.url)
isPublic(x) == x.town # Empty /\ x.category # Empty /\ x.url # Empty

RECURSIVE ingest(_)
ingest(rows) ==
  IF rows = << >> THEN << >>
  ELSE LET x == sanitize(Head(rows))
       IN  (IF isPublic(x) THEN <<x>> ELSE << >>) \o ingest(Tail(rows))

\* index.json: one placeholder per item, its vector null
buildIndex(items) == [i \in 1..Len(items) |-> [item |-> items[i], vector |-> "null"]]

\* the CSV rows the model draws from
RawRows ==
  { Row(<<" ", "A", "b">>, <<"c">>, Empty, Empty, Empty, Empty, Empty, <<"u">>, Empty),
    Row(<<"B">>, <<"c">>, <<"N">>, <<"x">>, <<"5">>, <<"9">>,
        <<"B", ",", " ", "A", "b", ",">>, <<"u">>, <<"n">>),
    Row(<<"c">>, <<"d">>, <<"e">>, Empty, <<"7">>, Empty, <<"c">>, <<"u">>, Empty),
    Row(<<"A", "b">>, <<"c">>, <<"a">>, Empty, <<"5">>, Empty, Empty, <<" ">>, Empty) }

RECURSIVE SeqsUpTo(_, _)
SeqsUpTo(S, n) ==
  IF n = 0 THEN {<< >>}
  ELSE LET shorter == SeqsUpTo(S, n - 1)
       IN  shorter \cup {Append(q, x) : q \in shorter, x \in S}

\* every towns.json the ingestion script writes from at most MaxRows rows
Directories == {ingest(rows) : rows \in SeqsUpTo(RawRows, MaxRows)}

\* --------------------------------------------------------- keywordRetrieve
\* [d.town, d.category, d.name, d.address, d.notes].filter(Boolean).join(' ').toLowerCase()
hayOf(d) ==
  toLowerCase(join(dropEmpty(<<d.town, d.category, d.name, d.address, d.notes>>), <<" ">>))

\* !tp || (d.town || '').toLowerCase().includes(tp)
townOk(d, tp) == tp = Empty \/ includes(toLowerCase(d.town), tp)

\* for (const t of tokens) if (hay.includes(t)) score++
scoreOf(d, tokens) == Cardinality({k \in 1..Len(tokens) : includes(hayOf(d), tokens[k])})

\* the loop over data: the town-matching records of score > 0, in directory
\* order; item is the reference to the record, its place in data
RECURSIVE scoreLoop(_, _, _, _)
scoreLoop(dir, i, tokens, tp) ==
  IF i > Len(dir) THEN << >>
  ELSE LET d == dir[i]
           score == scoreOf(d, tokens)
       IN  (IF townOk(d, tp) /\ score > 0 THEN <<[item |-> i, score |-> score]>> ELSE << >>)
           \o scoreLoop(dir, i + 1, tokens, tp)

\* data.filter(d => townOk).slice(0, 2).map(it => ({ item: it, score: 1 }))
RECURSIVE townMatches(_, _, _)
townMatches(dir, i, tp) ==
  IF i > Len(dir) THEN << >>
  ELSE (IF townOk(dir[i], tp) THEN <<i>> ELSE << >>) \o townMatches(dir, i + 1, tp)

\* line 81 without its town filter
fallbackUnfiltered(dir, tp) ==
  LET first == slice0([i \in 1..Len(dir) |-> i], 2)
  IN  [k \in 1..Len(first) |-> [item |-> first[k], score |-> 1]]

fallbackOf(dir, tp) ==
  LET first == slice0(townMatches(dir, 1, tp), 2)
  IN  [k \in 1..Len(first) |-> [item |-> first[k], score |-> 1]]

\* an insertion that puts x before the entries it ties with
RECURSIVE insertSortedUnstable(_, _)
insertSortedUnstable(sorted, x) ==
  IF sorted = << >> THEN <<x>>
  ELSE IF x.score - Head(sorted).score >= 0 THEN <<x>> \o sorted
       ELSE <<Head(sorted)>> \o insertSortedUnstable(Tail(sorted), x)

\* insertion of x into a list sorted by (a, b) => b.score - a.score, after
\* every entry that does not compare greater (Array.prototype.sort is stable)
RECURSIVE insertSorted(_, _)
insertSorted(sorted, x) ==
  IF sorted = << >> THEN <<x>>
  ELSE IF x.score - Head(sorted).score > 0 THEN <<x>> \o sorted
       ELSE <<Head(sorted)>> \o insertSorted(Tail(sorted), x)

RECURSIVE sortByScore(_, _)
sortByScore(xs, acc) ==
  IF xs = << >> THEN acc ELSE sortByScore(Tail(xs), insertSorted(acc, Head(xs)))

\* lines 80-83 missing: no fallback when nothing scored
keywordRetrieveNoFallback(dir, question, townPref) ==
  LET tokens == splitWords(toLowerCase(OrEmpty(question).s), Empty)
      tp == toLowerCase(OrEmpty(townPref).s)
  IN  slice0(sortByScore(scoreLoop(dir, 1, tokens, tp), << >>), 2)

keywordRetrieve(dir, question, townPref) ==
  LET tokens == splitWords(toLowerCase(OrEmpty(question).s), Empty)
      tp == toLowerCase(OrEmpty(townPref).s)
      scored == scoreLoop(dir, 1, tokens, tp)
  IN  IF scored = << >> THEN fallbackOf(dir, tp)
      ELSE slice0(sortByScore(scored, << >>), 2)

\* keywordRetrieve throws a TypeError at .toLowerCase() of a truthy non-string
retrieveThrows(question, townPref) ==
  NoStringMethods(OrEmpty(question)) \/ NoStringMethods(OrEmpty(townPref))

\* ---------------------------------------------- writeFallbackParagraph
\* "I couldn't find a match" (the source's apostrophe is U+2019)
ApologyHead ==
  <<"I", " ", "c", "o", "u", "l", "d", "n", "'", "t", " ", "f", "i", "n", "d", " ",
      "a", " ", "m", "a", "t", "c", "h">>
ApologyIn ==
  <<" ", "i", "n", " ">>
ApologyTail ==
  <<".", " ", "P", "l", "e", "a", "s", "e", " ", "t", "r", "y", " ", "a", " ", "d",
      "i", "f", "f", "e", "r", "e", "n", "t", " ", "t", "o", "w", "n", " ", "o", "r",
      " ", "c", "a", "t", "e", "g", "o", "r", "y", ",", " ", "o", "r", " ", "u", "s",
      "e", " ", "t", "h", "e", " ", "l", "i", "n", "k", "s", " ", "i", "n", " ", "t",
      "h", "e", " ", "s", "o", "u", "r", "c", "e", "s", " ", "b", "e", "l", "o", "w",
      ".">>
ServesLit ==
  <<" ", "s", "e", "r", "v", "e", "s", " ">>
HoursLit ==
  <<"H", "o", "u", "r", "s", ":", " ">>
AddressLit ==
  <<"A", "d", "d", "r", "e", "s", "s", ":", " ">>
PhoneLit ==
  <<"P", "h", "o", "n", "e", ":", " ">>
NotAvailable ==
  <<"N", "/", "A">>
MoreInfoLit ==
  <<"M", "o", "r", "e", " ", "i", "n", "f", "o", ":", " ">>
Dot == <<".">>

\* `${v}` for a string value of the body (the only ones that reach a template)
Shown(v) == v.s

\* (s || alt) for a string s
OrElse(s, alt) == IF s # Empty THEN s ELSE alt

writeFallbackParagraph(dir, scored, question, townPref) ==
  IF scored = << >>
  THEN ApologyHead \o (IF Truthy(townPref) THEN ApologyIn \o Shown(townPref) ELSE Empty)
       \o ApologyTail
  ELSE LET it == dir[scored[1].item]
           parts ==
             <<it.name \o ServesLit \o it.town \o Dot>>
             \o (IF it.notes # Empty THEN <<it.notes>> ELSE << >>)
             \o (IF it.hours # Empty THEN <<HoursLit \o it.hours \o Dot>> ELSE << >>)
             \o (IF it.address # Empty THEN <<AddressLit \o it.address \o Dot>> ELSE << >>)
             \o <<PhoneLit \o OrElse(it.phone, NotAvailable) \o Dot>>
             \o (IF it.url # Empty THEN <<MoreInfoLit \o it.url>> ELSE << >>)
       IN  join(parts, <<" ">>)

\* ------------------------------------------------------------ buildPrompt
NameMissing ==
  <<"(", "n", "a", "m", "e", " ", "n", "o", "t", " ", "p", "r", "o", "v", "i", "d",
      "e", "d", ")">>
NoMatches ==
  <<"(", "n", "o", " ", "m", "a", "t", "c", "h", "e", "s", ")">>
LinePhone ==
  <<" ", "-", " ", "P", "h", "o", "n", "e", ":", " ">>
LineHours ==
  <<"H", "o", "u", "r", "s", ":", " ">>
LineArea ==
  <<";", " ", "A", "r", "e", "a", ":", " ">>
LineLink ==
  <<"L", "i", "n", "k", ":", " ">>
LineNotes ==
  <<"N", "o", "t", "e", "s", ":", " ">>
Semi ==
  <<";", " ">>
CommaSp ==
  <<",", " ">>
\* the fixed guardrail preamble, one symbol standing for its text
Guardrails == <<"[guardrails]">>

\* one "- [category] name - Phone: ..." line of the Local Directory section
contextLine(it) ==
  <<"-", " ", "[">> \o it.category \o <<"]", " ">> \o OrElse(it.name, NameMissing)
  \o LinePhone \o OrElse(it.phone, NotAvailable) \o Semi
  \o (IF it.address # Empty THEN AddressLit \o it.address \o Semi ELSE Empty)
  \o LineHours \o OrElse(it.hours, NotAvailable) \o LineArea \o join(it.area, CommaSp) \o Semi
  \o (IF it.url # Empty THEN LineLink \o it.url \o Semi ELSE Empty)
  \o (IF it.notes # Empty THEN LineNotes \o it.notes ELSE Empty)

buildPrompt(dir, question, townPref, scored) ==
  LET contextLines == join([k \in 1..Len(scored) |-> contextLine(dir[scored[k].item])], <<"\n">>)
  IN  [guardrails |-> Guardrails,
       question |-> Shown(question),
       town |-> IF Truthy(townPref) THEN Shown(townPref) ELSE Empty,
       directory |-> OrElse(contextLines, NoMatches)]

\* ------------------------------------------------------- the generator
DefaultModel == "gemini-2.0-flash"

\* process.env.MODEL_NAME: unset, the default's name, another name
EnvModelNames == {"", DefaultModel, "gemini-custom"}

\* where initModel throws: nowhere, in new GoogleGenerativeAI(...), or in
\* genAI.getGenerativeModel(...)
InitFailures == {"none", "constructor", "getGenerativeModel"}

\* /not\s*found|404/i.test(msg)
LitNot == <<"n", "o", "t">>
LitFound == <<"f", "o", "u", "n", "d">>
Lit404 == <<"4", "0", "4">>
startsAt(s, i, w) == i + Len(w) - 1 <= Len(s) /\ SubSeq(s, i, i + Len(w) - 1) = w

testNotFound(msg) ==
  LET m == toLowerCase(msg)
  IN  \/ includes(m, Lit404)
      \/ \E i \in 1..Len(m) :
           /\ startsAt(m, i, LitNot)
           /\ \E k \in 0..Len(m) :
                /\ \A j \in 1..k : i + 2 + j <= Len(m) /\ IsSpace(m[i + 2 + j])
                /\ startsAt(m, i + 3 + k, LitFound)

\* the two texts of line 51 read in the other order
errorTextMessageFirst(err) == OrElse(err.message, OrElse(err.statusText, Empty))

\* err?.statusText || err?.message || ''
errorText(err) == OrElse(err.statusText, OrElse(err.message, Empty))

isNotFound(err) == testNotFound(errorText(err))

\* what one call of chatModel.generateContent(...) followed by
\* result.response.text() can do: return a text, or throw an error
TextHello == <<"H", "i", ".">>
TextNotFound == <<"N", "o", "t", " ", " ", "F", "o", "u", "n", "d">>
TextGone == <<"G", "o", "n", "e">>
Text404 == <<"[", "4", "0", "4", "]", " ", "n", "o", " ", "m", "o", "d", "e", "l">>
TextQuota == <<"q", "u", "o", "t", "a", " ", "f", "o", "u", "n", "d", " ", "n", "o", "t">>
GenTexts == {Empty, TextHello}
StatusTexts == {Empty, TextNotFound, TextGone}
Messages == {Empty, Text404, TextQuota}

Returned(text) == [ok |-> TRUE, text |-> text, statusText |-> Empty, message |-> Empty]
Thrown(st, msg) == [ok |-> FALSE, text |-> Empty, statusText |-> st, message |-> msg]
Outcomes == {Returned(t) : t \in GenTexts} \cup {Thrown(st, m) : st \in StatusTexts, m \in Messages}

\* ------------------------------------------------------------- the state
VARIABLES
  data,              \* towns.json as loaded (never written again)
  index,             \* index.json as loaded
  boot,              \* "init", "initRetry" (line 40), "listening"
  genAI,             \* "null" or "client"
  chatModel,         \* "null" or the model name the client is bound to
  currentModelName,
  initLog,           \* history: the initModel calls made
  req,               \* the POST /api/ask requests
  health,            \* the last GET /health response
  call               \* the last direct application of the pure functions

vars == <<data, index, boot, genAI, chatModel, currentModelName, initLog, req, health, call>>

Reqs == 1..NumReq

NoBody == [error |-> Empty, answer |-> Empty, sources |-> << >>]

NoPrompt == [guardrails |-> Empty, question |-> Empty, town |-> Empty, directory |-> Empty]

\* a request: its place in the handler, the locals of the handler, the
\* response sent, and (history) what generateWithRetry did for it
IdleReq ==
  [pc |-> "idle", question |-> JUndefined, townPref |-> JUndefined, scored |-> << >>,
   prompt |-> NoPrompt, log |-> << >>, status |-> 0, body |-> NoBody]

NoCall == [fn |-> "none", question |-> JUndefined, townPref |-> JUndefined,
           scored |-> << >>, text |-> Empty]

\* the rows of the ingestion run behind the concurrent server's directory
SampleRows ==
  << Row(<<"B">>, <<"c">>, <<"N">>, <<"x">>, <<"5">>, <<"9">>,
         <<"B", ",", " ", "A", "b", ",">>, <<"u">>, <<"n">>),
     Row(<<" ", "A", "b">>, <<"c">>, Empty, Empty, Empty, Empty, Empty, <<"u">>, Empty),
     Row(<<"c">>, <<"d">>, <<"e">>, Empty, <<"7">>, Empty, <<"c">>, <<"u">>, Empty) >>

\* module load, lines 19-27
Loaded(dir, envName) ==
  /\ data = dir
  /\ index = buildIndex(dir)
  /\ boot = "init"
  /\ genAI = "null"
  /\ chatModel = "null"
  /\ currentModelName = (IF envName # "" THEN envName ELSE DefaultModel)
  /\ initLog = << >>
  /\ req = [r \in Reqs |-> IdleReq]
  /\ health = [ok |-> FALSE, data |-> 0, index |-> 0, model |-> ""]
  /\ call = NoCall

\* the server started on the directory of the sample rows
Init == \E envName \in EnvModelNames : Loaded(ingest(SampleRows), envName)

\* the server started on any directory
InitAsk == \E dir \in Directories, envName \in EnvModelNames : Loaded(dir, envName)

\* ---------------------------------------------------------------- initModel
\* the assignments of initModel(name) up to the statement that throws;
\* initLog notes the call, and whether startup or a request made it
initModel(name, failure) ==
  /\ genAI' = (IF failure = "constructor" THEN genAI ELSE "client")
  /\ chatModel' = (IF failure = "none" THEN name ELSE chatModel)
  /\ currentModelName' = (IF failure = "none" THEN name ELSE currentModelName)
  /\ initLog' = Append(initLog, [name |-> name, failure |-> failure, at |-> boot])

\* try { initModel(currentModelName) } catch (e) { ... }
StartupInit(failure) ==
  /\ boot = "init"
  /\ initModel(currentModelName, failure)
  /\ boot' = (IF failure = "none" THEN "listening" ELSE "initRetry")
  /\ UNCHANGED <<data, index, req, health, call>>

\* line 40 retrying the configured name
startupRetrySameName == currentModelName

\* the name line 40 passes to initModel
startupRetryName == DefaultModel

\* try { initModel('gemini-2.0-flash'); } catch {}
StartupRetry(failure) ==
  /\ boot = "initRetry"
  /\ initModel(startupRetryName, failure)
  /\ boot' = "listening"
  /\ UNCHANGED <<data, index, req, health, call>>

\* ------------------------------------------------------------ the routes
GetHealth ==
  /\ boot = "listening"
  /\ health' = [ok |-> TRUE, data |-> Len(data), index |-> Len(index), model |-> currentModelName]
  /\ UNCHANGED <<data, index, boot, genAI, chatModel, currentModelName, initLog, req, call>>

ErrMissing == <<"M", "i", "s", "s", "i", "n", "g", " ", "q", "u", "e", "s", "t", "i", "o", "n">>
ErrNoData == <<"N", "o", " ", "d", "a", "t", "a", " ", "l", "o", "a", "d", "e", "d", ".", " ", "R", "u", "n", " ", "t", "h", "e", " ", "i", "n", "g", "e", "s", "t", "i", "o", "n", " ", "s", "c", "r", "i", "p", "t", ".">>
ErrServer == <<"S", "e", "r", "v", "e", "r", " ", "e", "r", "r", "o", "r">>

\* res.status(code).json({ error })
respondError(q, code, text) ==
  [q EXCEPT !.pc = "done", !.status = code, !.body = [NoBody EXCEPT !.error = text]]

\* if (!answer): the answer the generator left is unusable
needsFallbackNullOnly(answer) == answer.t = "null"
needsFallback(answer) == ~Truthy(answer)

\* lines 155-157: if (!answer) answer = writeFallbackParagraph(...); res.json(...)
respondAnswer(q, answer) ==
  [q EXCEPT !.pc = "done", !.status = 200,
            !.body = [error |-> Empty,
                      answer |-> IF needsFallback(answer)
                                 THEN writeFallbackParagraph(data, q.scored, q.question, q.townPref)
                                 ELSE answer.s,
                      sources |-> [k \in 1..Len(q.scored) |-> data[q.scored[k].item]]]]

\* an entry of a request's log
NoOut == [ok |-> FALSE, text |-> Empty, statusText |-> Empty, message |-> Empty]
Ev(e, model, out) == [e |-> e, model |-> model, out |-> out]

\* the handler once generateWithRetry has thrown: were the inner try (lines
\* 149-153) missing, the outer catch would answer 500
generatorThrewUncaught(q) == respondError(q, 500, ErrServer)
generatorThrew(q) == respondAnswer(q, JNull)

\* lines 141-142 with the two checks in the other order
validateDataFirst(question) ==
  IF Len(data) = 0 THEN 503
  ELSE IF ~Truthy(question) THEN 400
  ELSE IF NoStringMethods(question) THEN 500
  ELSE IF trim(question.s) = Empty THEN 400
  ELSE 0

\* lines 141-142: the status of the early return, 0 when there is none, 500
\* when question.trim is not a function
validate(question) ==
  IF ~Truthy(question) THEN 400
  ELSE IF NoStringMethods(question) THEN 500
  ELSE IF trim(question.s) = Empty THEN 400
  ELSE IF Len(data) = 0 THEN 503
  ELSE 0

\* the handler from its first line to its first suspension (or its response)
handleAsk(question, townPref) ==
  LET q0 == [IdleReq EXCEPT !.question = question, !.townPref = townPref]
      early == validate(question)
  IN  IF early = 400 THEN respondError(q0, 400, ErrMissing)
      ELSE IF early = 503 THEN respondError(q0, 503, ErrNoData)
      ELSE IF early = 500 \/ retrieveThrows(question, townPref)
      THEN respondError(q0, 500, ErrServer)
      ELSE LET scored == keywordRetrieve(data, question, townPref)
               q1 == [q0 EXCEPT !.scored = scored,
                                !.prompt = buildPrompt(data, question, townPref, scored)]
           IN  IF chatModel # "null"
               THEN [q1 EXCEPT !.pc = "call1", !.log = <<Ev("call", chatModel, NoOut)>>]
               ELSE respondAnswer(q1, JNull)

Ask(r, question, townPref) ==
  /\ boot = "listening"
  /\ req[r].pc = "idle"
  /\ req' = [req EXCEPT ![r] = handleAsk(question, townPref)]
  /\ UNCHANGED <<data, index, boot, genAI, chatModel, currentModelName, initLog, health, call>>

\* line 53 without its second conjunct
shouldRetryAnyModel(err) == isNotFound(err)

\* line 53: isNotFound && currentModelName !== 'gemini-2.0-flash'
shouldRetry(err) == isNotFound(err) /\ currentModelName # DefaultModel

\* generateWithRetry resumes after its first await (lines 49-61), and the
\* handler after it when generateWithRetry settles
FirstCallSettles(r, out, failure) ==
  /\ req[r].pc = "call1"
  /\ LET q == req[r]
         failed == Ev("failed", currentModelName, out)
     IN  IF out.ok
         THEN /\ failure = "none"
              /\ req' = [req EXCEPT ![r] =
                           respondAnswer([q EXCEPT !.log = q.log \o <<Ev("return", chatModel, out)>>],
                                         JStr(out.text))]
              /\ UNCHANGED <<genAI, chatModel, currentModelName, initLog>>
         ELSE IF shouldRetry(out)
         THEN /\ initModel(DefaultModel, failure)
              /\ req' = [req EXCEPT ![r] =
                           IF failure = "none"
                           THEN [q EXCEPT !.pc = "call2",
                                          !.log = q.log \o <<failed, Ev("reinit", DefaultModel, NoOut),
                                                             Ev("call", DefaultModel, NoOut)>>]
                           ELSE generatorThrew(
                                  [q EXCEPT !.log = q.log \o
                                     <<failed, Ev("reinitFailed", DefaultModel, NoOut),
                                       Ev("throw", currentModelName, NoOut)>>])]
         ELSE /\ failure = "none"
              /\ req' = [req EXCEPT ![r] =
                           generatorThrew(
                             [q EXCEPT !.log = q.log \o
                                <<failed, Ev("throw", currentModelName, out)>>])]
              /\ UNCHANGED <<genAI, chatModel, currentModelName, initLog>>
  /\ UNCHANGED <<data, index, boot, health, call>>

\* the retry's catch, were it to retry again on a not-found error
retryFailedAgain(q, out) ==
  IF isNotFound(out)
  THEN [q EXCEPT !.log = q.log \o <<Ev("failed", currentModelName, out),
                                    Ev("call", currentModelName, NoOut)>>]
  ELSE generatorThrew(
         [q EXCEPT !.log = q.log \o <<Ev("failed", currentModelName, out),
                                      Ev("throw", currentModelName, out)>>])

\* lines 56-59 throw: the error leaves generateWithRetry (the await of the
\* retry is inside the catch block, so no handler of it catches)
retryFailed(q, out) ==
  generatorThrew(
    [q EXCEPT !.log = q.log \o <<Ev("failed", currentModelName, out),
                                 Ev("throw", currentModelName, out)>>])

\* generateWithRetry resumes after its second await (lines 56-59)
RetrySettles(r, out) ==
  /\ req[r].pc = "call2"
  /\ LET q == req[r]
     IN  req' = [req EXCEPT ![r] =
                   IF out.ok
                   THEN respondAnswer([q EXCEPT !.log = q.log \o <<Ev("return", chatModel, out)>>],
                                      JStr(out.text))
                   ELSE retryFailed(q, out)]
  /\ UNCHANGED <<data, index, boot, genAI, chatModel, currentModelName, initLog, health, call>>

\* the bodies the concurrent clients post
PostedQuestions == {JUndefined, JStr(<<"a">>)}
PostedTowns == {JUndefined, JStr(<<"z">>)}

\* what the service does to the concurrent clients' calls
PostedOutcomes ==
  {Returned(Empty), Returned(TextHello), Thrown(TextNotFound, TextQuota),
   Thrown(Empty, Text404), Thrown(TextGone, Text404), Thrown(Empty, TextQuota)}

Next ==
  \/ \E failure \in InitFailures : StartupInit(failure)
  \/ \E failure \in InitFailures : StartupRetry(failure)
  \/ \E r \in Reqs, question \in PostedQuestions, townPref \in PostedTowns :
       Ask(r, question, townPref)
  \/ \E r \in Reqs, out \in PostedOutcomes, failure \in InitFailures :
       FirstCallSettles(r, out, failure)
  \/ \E r \in Reqs, out \in PostedOutcomes : RetrySettles(r, out)

\* NumReq concurrent requests against the server
Spec == Init /\ [][Next]_vars

\* the bodies of the single client
AskQuestions ==
  {JUndefined, JNull, JNum(7), JStr(Empty), JStr(<<" ", "\t">>), JStr(<<"z">>),
   JStr(<<"B", " ", "a">>), JStr(<<" ", "b", "\n">>)}
AskTowns == {JUndefined, JNum(7), JStr(<<"B">>), JStr(<<"c">>), JStr(<<"z">>)}

NextAsk ==
  \/ \E failure \in InitFailures : StartupInit(failure)
  \/ \E failure \in InitFailures : StartupRetry(failure)
  \/ GetHealth
  \/ \E question \in AskQuestions, townPref \in AskTowns : Ask(1, question, townPref)
  \/ \E out \in Outcomes, failure \in InitFailures : FirstCallSettles(1, out, failure)
  \/ \E out \in Outcomes : RetrySettles(1, out)

\* one request of any body against the server started on any directory
SpecAsk == InitAsk /\ [][NextAsk]_vars

\* ------------------------------------------- the pure functions, applied
QChars == {"a", "B", " "}
FnQuestions == {JUndefined} \cup {JStr(s) : s \in SeqsUpTo(QChars, MaxQLen)}
FnTowns == {JUndefined, JStr(Empty), JStr(<<"a">>), JStr(<<"B">>), JStr(<<"c">>), JStr(<<"z">>)}

InitFn == \E dir \in Directories : Loaded(dir, "")

Retrieve(question, townPref) ==
  /\ call.fn = "none"
  /\ call' = [fn |-> "keywordRetrieve", question |-> question, townPref |-> townPref,
              scored |-> keywordRetrieve(data, question, townPref), text |-> Empty]
  /\ UNCHANGED <<data, index, boot, genAI, chatModel, currentModelName, initLog, req, health>>

Compose ==
  /\ call.fn = "keywordRetrieve"
  /\ call' = [call EXCEPT !.fn = "writeFallbackParagraph",
                          !.text = writeFallbackParagraph(data, call.scored, call.question,
                                                          call.townPref)]
  /\ UNCHANGED <<data, index, boot, genAI, chatModel, currentModelName, initLog, req, health>>

NextFn ==
  \/ \E question \in FnQuestions, townPref \in FnTowns : Retrieve(question, townPref)
  \/ Compose

\* keywordRetrieve and writeFallbackParagraph on every directory and input
SpecFn == InitFn /\ [][NextFn]_vars
\* ---------------------------------------------------------------- claims
ReqDone(r) == req[r].pc = "done"
EventsOf(r) == {req[r].log[k].e : k \in DOMAIN req[r].log}
CallsOf(r) == Cardinality({k \in DOMAIN req[r].log : req[r].log[k].e = "call"})
FallbackFor(r) ==
  writeFallbackParagraph(data, req[r].scored, req[r].question, req[r].townPref)

\* the question is absent, or a string of white space only
BlankQuestion(v) ==
  \/ v.t = "undefined"
  \/ v.t = "string" /\ \A i \in DOMAIN v.s : v.s[i] \in {" ", "\t", "\n"}

\* the question is a string with a character that is not white space
NonBlankQuestion(v) == v.t = "string" /\ \E i \in DOMAIN v.s : v.s[i] \notin {" ", "\t", "\n"}

\* a town filter as the interface declares it: a string, or absent
DeclaredTown(v) == v.t \in {"undefined", "string"}

\* "not found" (any white space between the words) or "404", in any case
MentionsNotFound(text) ==
  LET m == toLowerCase(text)
      At(i, w) == i >= 1 /\ i + Len(w) - 1 <= Len(m) /\ \A j \in 1..Len(w) : m[i + j - 1] = w[j]
  IN  \/ \E i \in 1..Len(m) : At(i, <<"4", "0", "4">>)
      \/ \E i \in 1..Len(m), j \in 1..Len(m) :
           /\ At(i, <<"n", "o", "t">>)
           /\ At(j, <<"f", "o", "u", "n", "d">>)
           /\ j >= i + 3
           /\ \A k \in (i + 3)..(j - 1) : m[k] \in {" ", "\t", "\n"}

\* the error's status text, or its message when it has no status text
ClassifiedText(err) == IF err.statusText # Empty THEN err.statusText ELSE err.message

\* the records of the directory that pass the town filter, by place
TownMatching(townPref) ==
  LET tp == IF townPref.t = "string" THEN toLowerCase(townPref.s) ELSE Empty
  IN  {i \in 1..Len(data) : tp = Empty \/ includes(toLowerCase(data[i].town), tp)}

\* the token-overlap score of record i for a question
Overlap(i, question) ==
  LET tokens == IF question.t = "string" THEN splitWords(toLowerCase(question.s), Empty) ELSE << >>
  IN  Cardinality({k \in DOMAIN tokens : includes(hayOf(data[i]), tokens[k])})

\* C1: a request whose generator failed (generateWithRetry threw: the first
\* call failed and was not retried, the retry failed, or the reinitialization
\* failed) ends with status 200 and the fallback composer's text on the
\* retrieved records, never with an error response.
C1_GeneratorFailureAbsorbed ==
  \A r \in Reqs :
    "throw" \in EventsOf(r) =>
      /\ ReqDone(r)
      /\ NonBlankQuestion(req[r].question) /\ Len(data) > 0
      /\ req[r].status = 200
      /\ req[r].body.error = Empty
      /\ req[r].body.answer = FallbackFor(r)

C1_Witness ==
  \E r \in Reqs :
    /\ ReqDone(r) /\ req[r].status = 200
    /\ "reinitFailed" \in EventsOf(r) /\ "throw" \in EventsOf(r)

\* what the log of a request says after a first call that failed with a
\* not-found error while the current model was not the default, when the
\* reinitialization succeeded: one retry, to the default model, whose text is
\* returned or whose failure is thrown with no further call
RetriedOnce(r) ==
  LET L == req[r].log
  IN  /\ Len(L) >= 4
      /\ L[3].e = "reinit" /\ L[3].model = DefaultModel
      /\ chatModel = DefaultModel /\ currentModelName = DefaultModel
      /\ L[4].e = "call" /\ L[4].model = DefaultModel
      /\ CallsOf(r) = 2
      /\ \/ Len(L) = 4 /\ req[r].pc = "call2"
         \/ /\ Len(L) = 5 /\ L[5].e = "return" /\ ReqDone(r) /\ req[r].status = 200
            /\ L[5].out.text # Empty => req[r].body.answer = L[5].out.text
         \/ Len(L) = 6 /\ L[5].e = "failed" /\ L[6].e = "throw" /\ ReqDone(r)

\* the error left generateWithRetry with no retry
PropagatedAtOnce(r) ==
  LET L == req[r].log
  IN  Len(L) = 3 /\ L[3].e = "throw" /\ CallsOf(r) = 1 /\ ReqDone(r)

\* the reinitialization threw: its error left generateWithRetry, no retry
ReinitThrew(r) ==
  LET L == req[r].log
  IN  /\ Len(L) = 4 /\ L[3].e = "reinitFailed" /\ L[4].e = "throw"
      /\ CallsOf(r) = 1 /\ ReqDone(r)

FirstCallFailed(r) == Len(req[r].log) >= 2 /\ req[r].log[2].e = "failed"

RetryCase(r) ==
  /\ MentionsNotFound(ClassifiedText(req[r].log[2].out))
  /\ req[r].log[2].model # DefaultModel

\* C2 as stated: after a not-found failure of the first call under a
\* non-default model the generator always reinitializes and retries once;
\* otherwise the error propagates with no retry.
C2_Original ==
  \A r \in Reqs :
    FirstCallFailed(r) => IF RetryCase(r) THEN RetriedOnce(r) ELSE PropagatedAtOnce(r)

\* C2, amended: after a not-found failure of the first call (judged on the
\* error's status text, or on its message when it has no status text) under a
\* non-default model, the generator reinitializes to the default model and,
\* if the reinitialization succeeds, issues exactly one retry, returning its
\* text or propagating its failure with no further retry; if the
\* reinitialization throws, that error propagates and no retry is issued.
\* Any other first failure propagates with no retry.
C2_RetryOnce ==
  \A r \in Reqs :
    FirstCallFailed(r) =>
      IF RetryCase(r) THEN RetriedOnce(r) \/ ReinitThrew(r) ELSE PropagatedAtOnce(r)

C2_Witness ==
  \E r \in Reqs :
    /\ FirstCallFailed(r) /\ RetryCase(r)
    /\ Len(req[r].log) = 5 /\ req[r].log[5].e = "return"
    /\ req[r].body.answer = TextHello

\* C3 as stated: a request makes at most one call to the external service.
C3_Original == \A r \in Reqs : CallsOf(r) <= 1

\* C3, amended: a request makes at most two calls to the external service,
\* the second one only as the retry after a not-found failure of the first
\* under a non-default model and a successful reinitialization.
C3_AtMostTwoCalls ==
  \A r \in Reqs :
    /\ CallsOf(r) <= 2
    /\ CallsOf(r) = 2 =>
         /\ FirstCallFailed(r) /\ RetryCase(r)
         /\ req[r].log[3].e = "reinit"

C3_Witness == \E r \in Reqs : ReqDone(r) /\ CallsOf(r) = 2 /\ "throw" \in EventsOf(r)

\* the request did nothing past validation
NoWorkDone(q) ==
  /\ q.pc = "done"
  /\ q.scored = << >> /\ q.prompt = NoPrompt /\ q.body.sources = << >>
  /\ q.log = << >>

\* C4: a request with an absent or blank question is answered 400 "Missing
\* question" whatever the directory holds; one with a non-blank question on an
\* empty directory is answered 503 "No data loaded. Run the ingestion
\* script."; either way nothing is retrieved, no external call is made and
\* the generator's state is unchanged.
C4_ValidationOrder ==
  [][\A r \in Reqs :
       (req[r].pc = "idle" /\ req'[r].pc # "idle") =>
         /\ BlankQuestion(req'[r].question) =>
              /\ req'[r].status = 400
              /\ req'[r].body.error = ErrMissing /\ req'[r].body.answer = Empty
              /\ NoWorkDone(req'[r])
              /\ UNCHANGED <<genAI, chatModel, currentModelName>>
         /\ (NonBlankQuestion(req'[r].question) /\ Len(data) = 0) =>
              /\ req'[r].status = 503
              /\ req'[r].body.error = ErrNoData /\ req'[r].body.answer = Empty
              /\ NoWorkDone(req'[r])
              /\ UNCHANGED <<genAI, chatModel, currentModelName>>]_vars

C4_Witness ==
  \E r \in Reqs :
    /\ ReqDone(r) /\ req[r].status = 400 /\ Len(data) = 0
    /\ req[r].question.t = "string" /\ req[r].question.s # Empty

\* C5 as stated: on a non-empty directory keywordRetrieve returns at least
\* one record and a 200 response carries at least one source, for every
\* question and town filter.
C5_Original ==
  \A r \in Reqs :
    (req[r].status = 200 /\ Len(data) >= 1) =>
      Len(req[r].scored) >= 1 /\ Len(req[r].body.sources) >= 1

\* C5, amended: when at least one record of the directory passes the town
\* filter, keywordRetrieve returns at least one record (for every question
\* and filter; the directory never changes after load, so this is checked as
\* the server loads it) and a 200 response carries at least one source.
C5_SourcesWhenTownMatches ==
  /\ boot = "init" =>
       \A question \in FnQuestions, townPref \in FnTowns :
         TownMatching(townPref) # {} => Len(keywordRetrieve(data, question, townPref)) >= 1
  /\ \A r \in Reqs :
       (req[r].status = 200 /\ TownMatching(req[r].townPref) # {}) =>
         /\ Len(req[r].scored) >= 1
         /\ Len(req[r].body.sources) = Len(req[r].scored)

C5_Witness ==
  \E r \in Reqs :
    /\ req[r].status = 200 /\ Len(req[r].body.sources) = 2
    /\ req[r].townPref.t = "string" /\ req[r].townPref.s # Empty
    /\ \A i \in TownMatching(req[r].townPref) : Overlap(i, req[r].question) = 0

\* C6: the list keywordRetrieve returns has at most 2 entries, is in
\* non-increasing order of score with ties in directory order, holds only
\* records that pass the town filter, and (when some town-matching record
\* scores above 0) holds the highest-ranked ones: each entry carries its
\* token-overlap score and no town-matching record outside the list scores
\* strictly more than an entry of it.
C6_RankedTopTwo ==
  call.fn # "none" =>
    LET R == call.scored
        items == {R[k].item : k \in DOMAIN R}
        match == TownMatching(call.townPref)
    IN  /\ Len(R) <= 2
        /\ \A k \in DOMAIN R : R[k].item \in match
        /\ \A k \in 1..(Len(R) - 1) :
             \/ R[k].score > R[k + 1].score
             \/ R[k].score = R[k + 1].score /\ R[k].item < R[k + 1].item
        /\ (\E i \in match : Overlap(i, call.question) > 0) =>
             /\ \A k \in DOMAIN R : R[k].score = Overlap(R[k].item, call.question)
             /\ \A i \in match \ items : \A k \in DOMAIN R :
                  Overlap(i, call.question) <= R[k].score
             /\ Len(R) = (IF Cardinality({i \in match : Overlap(i, call.question) > 0}) < 2
                          THEN 1 ELSE 2)

C6_Witness ==
  /\ call.fn # "none" /\ Len(data) = 3 /\ Len(call.scored) = 2
  /\ \A i \in 1..3 : Overlap(i, call.question) > 0
  /\ call.scored[1].item = 2 /\ call.scored[2].item = 1
  /\ call.scored[1].score > call.scored[2].score
  /\ Overlap(3, call.question) = call.scored[2].score

\* the first n members of a set of places, in order
FirstOf(S, n) == {i \in S : Cardinality({j \in S : j < i}) < n}

\* C7: when no town-matching record has a token overlap above 0 (the empty
\* question included), keywordRetrieve returns the first min(2, n) records of
\* the town-filtered directory, in directory order, each with score 1; and
\* when some town-matching record has an overlap above 0 it returns no
\* record of overlap 0, so the fallback was not taken.
C7_FallbackFirstTwo ==
  call.fn # "none" =>
    LET R == call.scored
        match == TownMatching(call.townPref)
    IN  IF \A i \in match : Overlap(i, call.question) = 0
        THEN /\ {R[k].item : k \in DOMAIN R} = FirstOf(match, 2)
             /\ Len(R) = Cardinality(FirstOf(match, 2))
             /\ \A k \in DOMAIN R : R[k].score = 1
             /\ \A k \in 1..(Len(R) - 1) : R[k].item < R[k + 1].item
        ELSE \A k \in DOMAIN R :
               Overlap(R[k].item, call.question) > 0
               /\ R[k].score = Overlap(R[k].item, call.question)

C7_Witness ==
  /\ call.fn # "none" /\ Len(call.scored) = 2
  /\ call.question = JStr(Empty)
  /\ call.townPref.t = "string" /\ call.townPref.s # Empty
  /\ call.scored[1].item > 1
  /\ \A k \in 1..2 : call.scored[k].score = 1

StartupCalls == {k \in DOMAIN initLog : initLog[k].at # "listening"}
StartupFailedTwice ==
  /\ Len(initLog) >= 2
  /\ initLog[1].failure # "none" /\ initLog[2].at = "initRetry" /\ initLog[2].failure # "none"

\* C8: when the startup initialization with the configured name fails, it is
\* attempted once more, with the default name; when that fails too the server
\* listens with no generator, and every request with a non-blank question on
\* a non-empty directory (and a town filter that is a string or absent) is
\* answered 200 with the fallback composer's text and makes no external call.
C8_StartupFallback ==
  /\ (boot = "listening" /\ initLog[1].failure # "none") =>
       /\ StartupCalls = {1, 2}
       /\ initLog[1].at = "init" /\ initLog[2].at = "initRetry"
       /\ initLog[2].name = DefaultModel
  /\ (boot = "listening" /\ initLog[1].failure = "none") => StartupCalls = {1}
  /\ StartupFailedTwice =>
       /\ boot = "listening"
       /\ chatModel = "null"
       /\ \A r \in Reqs :
            req[r].pc # "idle" =>
              /\ ReqDone(r) /\ req[r].log = << >>
              /\ (NonBlankQuestion(req[r].question) /\ Len(data) > 0
                  /\ DeclaredTown(req[r].townPref)) =>
                   /\ req[r].status = 200
                   /\ req[r].body.answer = FallbackFor(r)

C8_Witness ==
  /\ StartupFailedTwice
  /\ initLog[1].name # DefaultModel
  /\ \E r \in Reqs : ReqDone(r) /\ req[r].status = 200 /\ Len(req[r].body.sources) > 0

\* the successful reinitializations made while handling requests
Switches == {k \in DOMAIN initLog : initLog[k].at = "listening" /\ initLog[k].failure = "none"}

\* C9: under every interleaving of the requests, the current model name
\* changes only to the default name (so never back from it), the client is
\* rebound only to the default model once it is bound, request handling
\* switches to the default at most once, and a request whose first call fails
\* with a not-found error once the current model is the default neither
\* reinitializes nor retries.
C9_ModelMonotone ==
  /\ [](/\ Cardinality(Switches) <= 1
        /\ \A r \in Reqs :
             (FirstCallFailed(r) /\ req[r].log[2].model = DefaultModel) => PropagatedAtOnce(r))
  /\ [][/\ currentModelName' # currentModelName => currentModelName' = DefaultModel
        /\ (chatModel # "null" /\ chatModel' # chatModel) => chatModel' = DefaultModel
        /\ (boot = "listening" /\ currentModelName' # currentModelName) =>
             Cardinality(Switches') = Cardinality(Switches) + 1]_vars

C9_Witness ==
  /\ Cardinality(Switches) = 1
  /\ \E r \in Reqs :
       /\ FirstCallFailed(r) /\ PropagatedAtOnce(r)
       /\ req[r].log[1].model # DefaultModel
       /\ req[r].log[2].model = DefaultModel
       /\ MentionsNotFound(ClassifiedText(req[r].log[2].out))

ClausePhone == <<"P", "h", "o", "n", "e", ":">>
ClausePhoneMissing == <<"P", "h", "o", "n", "e", ":", " ", "N", "/", "A", ".">>
SentenceNoMatch == <<"I", " ", "c", "o", "u", "l", "d", "n", "'", "t", " ", "f", "i", "n", "d", " ", "a", " ", "m", "a", "t", "c", "h">>

\* C10: a 200 response carries a non-empty answer: an empty text returned by
\* the generator is replaced by the fallback composer's text, and that text is
\* never empty: the apology sentence for no records, and otherwise a text with
\* the "Phone:" clause, "N/A" standing for an empty phone of the top record.
C10_AnswerNonEmpty ==
  \A r \in Reqs :
    req[r].status = 200 =>
      LET fb == FallbackFor(r)
          L == req[r].log
      IN  /\ req[r].body.answer # Empty
          /\ (L # << >> /\ L[Len(L)].e = "return" /\ L[Len(L)].out.text = Empty) =>
               req[r].body.answer = fb
          /\ (L # << >> /\ L[Len(L)].e = "return" /\ L[Len(L)].out.text # Empty) =>
               req[r].body.answer = L[Len(L)].out.text
          /\ fb # Empty
          /\ req[r].scored = << >> => SubSeq(fb, 1, Len(SentenceNoMatch)) = SentenceNoMatch
          /\ req[r].scored # << >> =>
               /\ includes(fb, ClausePhone)
               /\ data[req[r].scored[1].item].phone = Empty => includes(fb, ClausePhoneMissing)

C10_Witness ==
  \E r \in Reqs :
    /\ req[r].status = 200 /\ req[r].log # << >>
    /\ req[r].log[Len(req[r].log)].e = "return"
    /\ req[r].log[Len(req[r].log)].out.text = Empty
    /\ req[r].scored # << >>
    /\ data[req[r].scored[1].item].phone = Empty
=============================================================================
